---- MODULE Spec2Model ----
(***************************************************************************)
(* depthlog: a thread-local call-depth counter (g_depth), the RAII guard   *)
(* Scope that brackets it, the %D pattern flag depth_flag and the          *)
(* indenting console sink stderr_indent_color_sink_mt.                     *)
(* Source: src/include/depthlog/depthlog.hpp, src/example/example.cpp      *)
(***************************************************************************)
EXTENDS Integers, Sequences, FiniteSets, TLC

(* ---------------------------------------------------------------- bounds *)
\* deepest nesting a thread is driven to (g_depth is an int; far below INT_MAX)
MaxDepth == 2
\* dynamically allocated Scope objects created in one run
MaxNew == 1
\* worker threads started by main: example.cpp:86, for (int i = 0; i < 2; ++i)
NumWorkers == 2

\* deepest nesting a logging thread is driven to
MaxLogDepth == 3
\* calls of set_spaces_per_depth / set_fn_color in one run
MaxSets == 1
\* sizeof(kSpaces) - 1: the spaces one buf.append of the indent loop can take
kChunk == 63
\* spaces_per_depth_{4}, and init()'s stderr_indent_color_sink_mt(4)
DefaultSpaces == 4

Threads == 0..NumWorkers
MainThread == 0
ExitPaths == {"fallthrough", "return", "throw"}

\* the threads whose depth() reads are recorded in reads
Observed == {MainThread}

VARIABLES
  pc,               \* per thread: "run", "log" (inside logger::log), "set_color"
  call,             \* per thread: the log call in flight, or NoCall
  sinks,            \* the logger's sinks, in the order they are called
  formatter,        \* the depth_flag object of the file sink's formatter
  rendered,         \* per thread: the file line its call in flight has written
  forwarded,        \* per thread: what its call in flight gave ansicolor_stderr_sink_mt::log
  prev,             \* per thread: emission depth and %D token of its previous record
  spaces_per_depth_,\* stderr_indent_color_sink_mt::spaces_per_depth_
  fn_color_code_,   \* stderr_indent_color_sink_mt::fn_color_code_
  color_write,      \* the assignment to fn_color_code_ in progress, or NoWrite
  nsets,            \* setter calls so far
  started,    \* thread t: "new" (not yet started), "running", "done" (joined)
  g_depth,    \* thread_local int g_depth, one per thread
  stack,      \* per thread: its live automatic Scope objects, innermost last
  heapLive,   \* per thread: live dynamically allocated Scopes constructed on it
  foreign,    \* per thread: a Scope was destroyed on another thread than its constructor's
  news,       \* dynamically allocated Scopes constructed so far
  reads,      \* per observed thread: depth() after each step of its current sequential nest
  nestN,      \* per observed thread: guards constructed in that nest
  last        \* the step just taken: operation, thread, depth() before and after

depthvars == <<started, g_depth, stack, heapLive, foreign, news, reads, nestN>>
logvars == <<pc, call, sinks, formatter, rendered, forwarded, prev,
             spaces_per_depth_, fn_color_code_, color_write, nsets>>
vars == <<depthvars, logvars, last>>

(* ------------------------------------------------------ depth primitives *)
\* inline int depth() { return g_depth; }
depth(t) == g_depth[t]

\* the thread_local variable of thread t takes value v; no other thread's does
tls_shared(t, v) == [u \in Threads |-> v]
tls_write(t, v) == [g_depth EXCEPT ![t] = v]

\* Scope() { ++g_depth; }
Scope_ctor_twice(d) == d + 2
Scope_ctor(d) == d + 1

\* ~Scope() { if (g_depth > 0) --g_depth; }
Scope_dtor_unclamped(d) == d - 1
Scope_dtor_keep(d) == d
Scope_dtor(d) == IF d > 0 THEN d - 1 ELSE d

\* leaving a region destroys its guard whatever the exit path
unwind_not_on_throw(path, d) == IF path = "throw" THEN d ELSE Scope_dtor(d)
unwind(path, d) == Scope_dtor(d)

Running(t) == started[t] = "running"
\* the thread is executing its own code, not inside a logger or setter call
AtRun(t) == Running(t) /\ pc[t] = "run"
\* a region in which a guard was created or destroyed out of stack discipline
Dirty(s) == [i \in 1..Len(s) |-> [pre |-> 0, clean |-> FALSE]]
NoStep == [op |-> "none", t |-> MainThread, path |-> "none",
           before |-> 0, after |-> 0, pre |-> 0, clean |-> TRUE]

(* ------------------------------------------------------ text as bytes *)
\* a string is the sequence of its bytes; "ESC" stands for the byte 0x1b
Digits == <<"0", "1", "2", "3", "4", "5", "6", "7", "8", "9">>
Spaces(n) == [i \in 1..n |-> " "]

\* fmt::format_to(..., "{}", int): the decimal digits, '-' first when negative
RECURSIVE DecimalNat(_)
DecimalNat(n) == IF n < 10 THEN <<Digits[n + 1]>>
                 ELSE DecimalNat(n \div 10) \o <<Digits[(n % 10) + 1]>>
Decimal(n) == IF n < 0 THEN <<"-">> \o DecimalNat(0 - n) ELSE DecimalNat(n)

(* ------------------------------------------------------- depth_flag, %D *)
\* a depth_flag object has no members. "born" is not one: it notes the depth of
\* the thread that made the object, the value a caching formatter would hold
depth_flag_new(d) == [flag |-> "D", born |-> d]

\* depth_flag::format: appends the calling thread's g_depth in decimal
depth_flag_format_cached(f, m, t) == Decimal(f.born)
depth_flag_format(f, m, t) == Decimal(g_depth[t])

\* make_logfmt_formatter(): ts level depth=%D tid file line func msg=%v,
\* rendered by the file sink on the thread that logs
logfmt_format(f, m, t) ==
  [ts |-> m.time, level |-> m.level, depth |-> depth_flag_format(f, m, t),
   tid |-> m.tid, file |-> m.file, line |-> m.line, func |-> m.funcname,
   msg |-> m.payload]

(* ------------------------------------- stderr_indent_color_sink_mt::log *)
\* (d > 0) ? static_cast<std::size_t>(d) * spaces_per_depth_ : 0
\* (a std::size_t product: it cannot wrap for the depths and widths used here)
indent_of(d, spd) == IF d > 0 THEN d * spd ELSE 0

\* static constexpr char kSpaces[64]: 63 spaces and the terminating NUL
kSpaces == [i \in 1..kChunk |-> " "]

\* while (remaining) { n = min(remaining, sizeof(kSpaces) - 1); append n spaces }
indent_loop_once(buf, remaining) ==
  buf \o SubSeq(kSpaces, 1, IF remaining > kChunk THEN kChunk ELSE remaining)
RECURSIVE indent_loop(_, _)
indent_loop(buf, remaining) ==
  IF remaining = 0 THEN buf
  ELSE LET n == IF remaining > kChunk THEN kChunk ELSE remaining
       IN indent_loop(buf \o SubSeq(kSpaces, 1, n), remaining - n)

\* ansicolor_sink::reset, the SGR reset "\033[m" appended after the function name
reset == <<"ESC", "[", "m">>

Sgr(digits) == <<"ESC", "[">> \o digits \o <<"m">>

\* append_ansi_color_code_: the named colour's SGR code; nothing when unknown
append_ansi_color_code_shifted(buf, name) ==
  IF name = "cyan" THEN buf \o Sgr(<<"3", "5">>) ELSE buf
append_ansi_color_code_(buf, name) ==
  CASE name = "black" -> buf \o Sgr(<<"3", "0">>)
    [] name = "red" -> buf \o Sgr(<<"3", "1">>)
    [] name = "green" -> buf \o Sgr(<<"3", "2">>)
    [] name = "yellow" -> buf \o Sgr(<<"3", "3">>)
    [] name = "blue" -> buf \o Sgr(<<"3", "4">>)
    [] name = "magenta" -> buf \o Sgr(<<"3", "5">>)
    [] name = "cyan" -> buf \o Sgr(<<"3", "6">>)
    [] name = "white" -> buf \o Sgr(<<"3", "7">>)
    [] name = "bright_black" -> buf \o Sgr(<<"9", "0">>)
    [] name = "bright_red" -> buf \o Sgr(<<"9", "1">>)
    [] name = "bright_green" -> buf \o Sgr(<<"9", "2">>)
    [] name = "bright_yellow" -> buf \o Sgr(<<"9", "3">>)
    [] name = "bright_blue" -> buf \o Sgr(<<"9", "4">>)
    [] name = "bright_magenta" -> buf \o Sgr(<<"9", "5">>)
    [] name = "bright_cyan" -> buf \o Sgr(<<"9", "6">>)
    [] name = "bright_white" -> buf \o Sgr(<<"9", "7">>)
    [] OTHER -> buf

\* lines 106-133: spaces, then for a named function colour, name, reset, ": ",
\* then the payload
build_buf(indent, fn, color, payload) ==
  LET b1 == IF indent # 0 THEN indent_loop(<<>>, indent) ELSE <<>>
      b2 == IF Len(fn) > 0
            THEN append_ansi_color_code_(b1, color) \o fn \o reset \o <<":", " ">>
            ELSE b1
  IN b2 \o payload

\* log_msg msg2 = msg; msg2.payload = string_view(buf)
with_payload(m, buf) == [m EXCEPT !.payload = buf]

\* log takes msg by const reference: the caller's record is as it was
incoming_overwritten(m, m2) == m2
incoming_after_log(m, m2) == m

(* ------------------------------------------------------------- inputs *)
Str_top == <<"t", "o", "p">>
\* SPDLOG_INFO / SPDLOG_WARN carry the source location; spdlog::info does not
Records == {
  [level |-> "info", time |-> 100, file |-> "example.cpp", line |-> 46,
   funcname |-> Str_top, payload |-> <<"e", "n", "t", "e", "r">>],
  [level |-> "warn", time |-> 200, file |-> "", line |-> 0, funcname |-> <<>>,
   payload |-> <<"h", "i">>] }
SpaceInputs == {0, 22}
ColorInputs == {"bright_red", "teal"}
\* what a read of fn_color_code_ can give while another thread assigns to it
Torn == "<torn>"
LogThreads == {MainThread, 1}

(* ------------------------------------------------------- initial state *)
NoCall == [i |-> 0]
NoOutput == [none |-> TRUE]
NoWrite == [by |-> -1]
\* init(): sinks_init_list{file_sink, stderr_sink}; the other order is a logger
\* built with the same two sinks the other way round
SinkOrders == {<<"file", "stderr">>, <<"stderr", "file">>}

InitWith(order) ==
  /\ started = [t \in Threads |-> IF t = MainThread THEN "running" ELSE "new"]
  /\ g_depth = [t \in Threads |-> 0]
  /\ stack = [t \in Threads |-> <<>>]
  /\ heapLive = [t \in Threads |-> 0]
  /\ foreign = [t \in Threads |-> FALSE]
  /\ news = 0
  /\ reads = [t \in Threads |-> <<>>]
  /\ nestN = [t \in Threads |-> 0]
  /\ last = NoStep
  /\ pc = [t \in Threads |-> "run"]
  /\ call = [t \in Threads |-> NoCall]
  /\ sinks = order
  /\ formatter = depth_flag_new(0)
  /\ rendered = [t \in Threads |-> NoOutput]
  /\ forwarded = [t \in Threads |-> NoOutput]
  /\ prev = [t \in Threads |-> NoOutput]
  /\ spaces_per_depth_ = DefaultSpaces
  /\ fn_color_code_ = "cyan"
  /\ color_write = NoWrite
  /\ nsets = 0

(* --------------------------------------------------------------- actions *)
\* DEPTHLOG_SCOPE(): an automatic Scope at the top of a region
ScopeEnter(t, cap) ==
  /\ AtRun(t)
  /\ depth(t) < cap
  /\ LET d == depth(t)
         d2 == Scope_ctor(d)
         fresh == Len(stack[t]) = 0 /\ d = 0
         rising == reads[t] # <<>> /\ Len(reads[t]) = Len(stack[t]) + 1
     IN /\ g_depth' = tls_write(t, d2)
        /\ stack' = [stack EXCEPT ![t] = Append(@, [pre |-> d, clean |-> TRUE])]
        /\ reads' = [reads EXCEPT ![t] =
                       IF t \notin Observed THEN @
                       ELSE IF fresh THEN <<d, d2>>
                       ELSE IF rising THEN Append(@, d2) ELSE <<>>]
        /\ nestN' = [nestN EXCEPT ![t] =
                       IF t \notin Observed THEN @
                       ELSE IF fresh THEN 1 ELSE IF rising THEN @ + 1 ELSE 0]
        /\ last' = [op |-> "enter", t |-> t, path |-> "none", before |-> d,
                    after |-> d2, pre |-> d, clean |-> TRUE]
  /\ UNCHANGED <<started, heapLive, foreign, news>>
  /\ UNCHANGED logvars

\* the region is left by fall-through, return or a propagating exception
ScopeExit(t, path) ==
  /\ AtRun(t)
  /\ Len(stack[t]) > 0
  /\ LET d == depth(t)
         d2 == unwind(path, d)
         top == stack[t][Len(stack[t])]
     IN /\ g_depth' = tls_write(t, d2)
        /\ stack' = [stack EXCEPT ![t] = SubSeq(@, 1, Len(@) - 1)]
        /\ reads' = [reads EXCEPT ![t] = IF @ = <<>> THEN @ ELSE Append(@, d2)]
        /\ last' = [op |-> "exit", t |-> t, path |-> path, before |-> d,
                    after |-> d2, pre |-> top.pre, clean |-> top.clean]
  /\ UNCHANGED <<started, heapLive, foreign, news, nestN>>
  /\ UNCHANGED logvars

\* new Scope: a guard whose lifetime is not tied to a region
ScopeNew(t) ==
  /\ AtRun(t)
  /\ depth(t) < MaxDepth
  /\ news < MaxNew
  /\ news' = news + 1
  /\ LET d == depth(t)
         d2 == Scope_ctor(d)
     IN /\ g_depth' = tls_write(t, d2)
        /\ last' = [op |-> "new", t |-> t, path |-> "none", before |-> d,
                    after |-> d2, pre |-> d, clean |-> FALSE]
  /\ heapLive' = [heapLive EXCEPT ![t] = @ + 1]
  /\ stack' = [stack EXCEPT ![t] = Dirty(@)]
  /\ reads' = [reads EXCEPT ![t] = <<>>]
  /\ nestN' = [nestN EXCEPT ![t] = 0]
  /\ UNCHANGED <<started, foreign>>
  /\ UNCHANGED logvars

\* delete of a Scope constructed on thread c, executed by thread t
ScopeDelete(t, c) ==
  /\ AtRun(t)
  /\ heapLive[c] > 0
  /\ LET d == depth(t)
         d2 == Scope_dtor(d)
     IN /\ g_depth' = tls_write(t, d2)
        /\ last' = [op |-> "delete", t |-> t, path |-> "none", before |-> d,
                    after |-> d2, pre |-> d, clean |-> FALSE]
  /\ heapLive' = [heapLive EXCEPT ![c] = @ - 1]
  /\ foreign' = [u \in Threads |-> foreign[u] \/ (t # c /\ u \in {t, c})]
  /\ stack' = [stack EXCEPT ![t] = Dirty(@)]
  /\ reads' = [reads EXCEPT ![t] = <<>>]
  /\ nestN' = [nestN EXCEPT ![t] = 0]
  /\ UNCHANGED <<started, news>>
  /\ UNCHANGED logvars

\* threads.emplace_back(thread_entry, i): the new thread's g_depth starts at 0
thread_start(p, c) ==
  /\ AtRun(p)
  /\ started[c] = "new"
  /\ started' = [started EXCEPT ![c] = "running"]
  /\ g_depth' = tls_write(c, 0)
  /\ last' = [NoStep EXCEPT !.op = "start", !.t = c, !.before = depth(p)]
  /\ UNCHANGED <<stack, heapLive, foreign, news, reads, nestN>>
  /\ UNCHANGED logvars

\* the thread function returns (all its regions left); t.join()
thread_exit(t) ==
  /\ AtRun(t)
  /\ t # MainThread
  /\ Len(stack[t]) = 0
  /\ started' = [started EXCEPT ![t] = "done"]
  /\ last' = [NoStep EXCEPT !.op = "exit_thread", !.t = t,
              !.before = depth(t), !.after = depth(t)]
  /\ UNCHANGED <<g_depth, stack, heapLive, foreign, news, reads, nestN>>
  /\ UNCHANGED logvars

(* ------------------------------------------------------ logging actions *)
\* SPDLOG_INFO(...) / spdlog::info(...): logger::log builds the record on the
\* calling thread and hands it to each sink in turn, synchronously
Log(t, r) ==
  /\ AtRun(t)
  /\ pc' = [pc EXCEPT ![t] = "log"]
  /\ LET m == [level |-> r.level, time |-> r.time, tid |-> t, file |-> r.file,
               line |-> r.line, funcname |-> r.funcname, payload |-> r.payload]
     IN call' = [call EXCEPT ![t] =
                   [i |-> 1, stage |-> "enter", msg |-> m, orig |-> m,
                    emit_depth |-> depth(t), d |-> 0, indent |-> 0, spd |-> 0,
                    color0 |-> ""]]
  /\ last' = NoStep
  /\ UNCHANGED <<depthvars, sinks, formatter, rendered, forwarded, prev,
                 spaces_per_depth_, fn_color_code_, color_write, nsets>>

InSink(t, name) ==
  /\ Running(t) /\ pc[t] = "log"
  /\ call[t].i <= Len(sinks)
  /\ sinks[call[t].i] = name

\* the file sink's log: its pattern_formatter renders the record, %D included
FileSinkLog(t) ==
  /\ InSink(t, "file")
  /\ rendered' = [rendered EXCEPT ![t] =
                    [line |-> logfmt_format(formatter, call[t].msg, t),
                     emit_depth |-> call[t].emit_depth,
                     born |-> formatter.born]]
  /\ call' = [call EXCEPT ![t].i = @ + 1]
  /\ last' = NoStep
  /\ UNCHANGED <<depthvars, pc, sinks, formatter, forwarded, prev,
                 spaces_per_depth_, fn_color_code_, color_write, nsets>>

\* stderr_indent_color_sink_mt::log, lines 93-103: depth, indent, fast path
IndentLogBegin(t) ==
  /\ InSink(t, "stderr")
  /\ call[t].stage = "enter"
  /\ LET msg == call[t].msg
         d == depth(t)
         indent == indent_of(d, spaces_per_depth_)
         has_fn == Len(msg.funcname) > 0
     IN IF indent = 0 /\ ~has_fn
        THEN /\ forwarded' = [forwarded EXCEPT ![t] =
                    [fwd |-> msg, fast |-> TRUE, d |-> d,
                     spd |-> spaces_per_depth_, color |-> "",
                     color0 |-> fn_color_code_]]
             /\ call' = [call EXCEPT ![t].i = @ + 1]
        ELSE /\ forwarded' = forwarded
             /\ call' = [call EXCEPT ![t].stage = "build", ![t].d = d,
                                     ![t].indent = indent,
                                     ![t].spd = spaces_per_depth_,
                                     ![t].color0 = fn_color_code_]
  /\ last' = NoStep
  /\ UNCHANGED <<depthvars, pc, sinks, formatter, rendered, prev,
                 spaces_per_depth_, fn_color_code_, color_write, nsets>>

\* the value a read of fn_color_code_ yields: it races with set_fn_color
ReadColor ==
  IF color_write = NoWrite THEN {fn_color_code_}
  ELSE {fn_color_code_, color_write.new, Torn}

\* lines 106-141: build the buffer, copy the record, forward the copy
IndentLogBuild(t) ==
  /\ InSink(t, "stderr")
  /\ call[t].stage = "build"
  /\ LET msg == call[t].msg
         has_fn == Len(msg.funcname) > 0
     IN \E color \in (IF has_fn THEN ReadColor ELSE {""}) :
          LET buf == build_buf(call[t].indent, msg.funcname, color, msg.payload)
              msg2 == with_payload(msg, buf)
          IN /\ forwarded' = [forwarded EXCEPT ![t] =
                    [fwd |-> msg2, fast |-> FALSE, d |-> call[t].d,
                     spd |-> call[t].spd, color |-> color,
                     color0 |-> call[t].color0]]
             /\ call' = [call EXCEPT ![t].i = @ + 1, ![t].stage = "enter",
                                     ![t].msg = incoming_after_log(msg, msg2)]
  /\ last' = NoStep
  /\ UNCHANGED <<depthvars, pc, sinks, formatter, rendered, prev,
                 spaces_per_depth_, fn_color_code_, color_write, nsets>>

\* every sink has been called: logger::log returns
LogReturn(t) ==
  /\ Running(t) /\ pc[t] = "log"
  /\ call[t].i > Len(sinks)
  /\ pc' = [pc EXCEPT ![t] = "run"]
  /\ call' = [call EXCEPT ![t] = NoCall]
  /\ prev' = [prev EXCEPT ![t] = IF rendered[t] = NoOutput THEN @
                ELSE [emit_depth |-> rendered[t].emit_depth,
                      token |-> rendered[t].line.depth]]
  /\ rendered' = [rendered EXCEPT ![t] = NoOutput]
  /\ forwarded' = [forwarded EXCEPT ![t] = NoOutput]
  /\ last' = NoStep
  /\ UNCHANGED <<depthvars, sinks, formatter, spaces_per_depth_,
                 fn_color_code_, color_write, nsets>>

\* install_depth_flag(): a pattern_formatter with a new depth_flag for 'D' is
\* handed to the logger's sink, before any thread logs through it
install_depth_flag(t) ==
  /\ AtRun(t)
  /\ \A u \in Threads : pc[u] # "log"
  /\ formatter # depth_flag_new(depth(t))
  /\ formatter' = depth_flag_new(depth(t))
  /\ last' = NoStep
  /\ UNCHANGED <<depthvars, pc, call, sinks, rendered, forwarded, prev,
                 spaces_per_depth_, fn_color_code_, color_write, nsets>>

\* void set_spaces_per_depth(std::size_t v) noexcept { spaces_per_depth_ = v; }
set_spaces_per_depth(t, v) ==
  /\ AtRun(t)
  /\ nsets < MaxSets
  /\ nsets' = nsets + 1
  /\ spaces_per_depth_' = v
  /\ last' = NoStep
  /\ UNCHANGED <<depthvars, pc, call, sinks, formatter, rendered, forwarded,
                 prev, fn_color_code_, color_write>>

\* set_fn_color: fn_color_code_ = std::move(color), a std::string assignment
\* that takes no lock; it starts ...
set_fn_color_begin(t, name) ==
  /\ AtRun(t)
  /\ nsets < MaxSets
  /\ color_write = NoWrite
  /\ nsets' = nsets + 1
  /\ pc' = [pc EXCEPT ![t] = "set_color"]
  /\ color_write' = [by |-> t, new |-> name]
  /\ last' = NoStep
  /\ UNCHANGED <<depthvars, call, sinks, formatter, rendered, forwarded, prev,
                 spaces_per_depth_, fn_color_code_>>

\* ... and completes
set_fn_color_end(t) ==
  /\ Running(t) /\ pc[t] = "set_color"
  /\ color_write # NoWrite /\ color_write.by = t
  /\ fn_color_code_' = color_write.new
  /\ color_write' = NoWrite
  /\ pc' = [pc EXCEPT ![t] = "run"]
  /\ last' = NoStep
  /\ UNCHANGED <<depthvars, call, sinks, formatter, rendered, forwarded, prev,
                 spaces_per_depth_, nsets>>

(* ---------------------------------------------------------------- claims *)
\* the values 0,1,...,n,...,1,0
Ramp(n) == [i \in 1..(2 * n + 1) |-> IF i <= n + 1 THEN i - 1 ELSE 2 * n + 1 - i]

\* C1: on a thread that starts at depth 0, N sequentially nested guards make
\* depth() read exactly 0,1,...,N while they are constructed and N-1,...,0 while
\* they are destroyed: the reads so far are a prefix of 0..N..0, and the whole of
\* it once the last guard is gone.
C1_MonotoneNesting ==
  \A t \in Threads :
    reads[t] # <<>> =>
      /\ Len(reads[t]) <= 2 * nestN[t] + 1
      /\ reads[t] = SubSeq(Ramp(nestN[t]), 1, Len(reads[t]))
      /\ Len(reads[t]) = 2 * nestN[t] + 1 - Len(stack[t])
      /\ (Len(stack[t]) = 0 => reads[t] = Ramp(nestN[t]))

C1_Witness == \E t \in Threads : MaxDepth >= 2 /\ reads[t] = Ramp(MaxDepth)

\* C2: a region entered under stack discipline leaves depth() as it found it,
\* by exactly one decrement, whichever exit path is taken (fall-through, return,
\* propagating exception).
C2_Balance ==
  (last.op = "exit" /\ last.clean) =>
    /\ last.path \in ExitPaths
    /\ last.before = last.pre + 1
    /\ last.after = last.pre
    /\ depth(last.t) = last.pre

C2_Witness ==
  last.op = "exit" /\ last.clean /\ last.path = "throw" /\ last.pre = 1

\* C3: a step executed by one thread leaves every other running thread's
\* depth() unchanged, and a thread that starts reads depth 0.
C3_ThreadIsolation ==
  [][/\ \A u \in Threads :
          (u # last'.t /\ started[u] = "running") => g_depth'[u] = g_depth[u]
     /\ \A c \in Threads :
          (started[c] = "new" /\ started'[c] = "running") => g_depth'[c] = 0]_vars

C3_Witness ==
  /\ last.op \in {"enter", "exit", "new", "delete"}
  /\ \E u \in Threads :
       u # last.t /\ Running(u) /\ depth(u) > 0 /\ depth(u) # depth(last.t)

\* a thread started by a parent that is itself inside a guarded region
C3_StartWitness == last.op = "start" /\ last.before > 0 /\ depth(last.t) = 0

\* C4: destroying a Scope on a thread whose depth is 0 leaves it 0, and no
\* thread's depth is ever negative.
C4_FloorClamp ==
  /\ \A t \in Threads : depth(t) >= 0
  /\ (last.op \in {"exit", "delete"} /\ last.before = 0) => last.after = 0

C4_Witness == last.op \in {"exit", "delete"} /\ last.before = 0

\* C5 as stated: every thread's depth equals the number of live guards that
\* were constructed on it.
C5_DepthIsLiveGuards ==
  \A t \in Threads : depth(t) = Len(stack[t]) + heapLive[t]

\* C5 amended: the same, for the threads no guard of which was destroyed on
\* another thread and on which no other thread's guard was destroyed.
C5_DepthIsLiveGuardsSameThread ==
  \A t \in Threads : ~foreign[t] => depth(t) = Len(stack[t]) + heapLive[t]

C5_Witness ==
  /\ last.op = "delete" /\ ~foreign[last.t]
  /\ Len(stack[last.t]) > 0 /\ depth(last.t) = Len(stack[last.t])

\* the number a string of decimal digits denotes
DigitVal(c) == CHOOSE k \in 0..9 : Digits[k + 1] = c
RECURSIVE ParseDecimal(_)
ParseDecimal(q) ==
  IF Len(q) = 0 THEN 0
  ELSE 10 * ParseDecimal(SubSeq(q, 1, Len(q) - 1)) + DigitVal(q[Len(q)])

\* C6: the %D token of every rendered line is the decimal of the depth the
\* rendering thread had when it emitted the record (which is its depth at
\* render time), whatever depth the formatter object was made at; so a thread's
\* successive records carry the tokens of its successive depths.
C6_RenderTimeDepth ==
  \A t \in Threads :
    /\ rendered[t] # NoOutput =>
         /\ rendered[t].line.depth = Decimal(rendered[t].emit_depth)
         /\ ParseDecimal(rendered[t].line.depth) = depth(t)
         /\ rendered[t].line.tid = t
    /\ prev[t] # NoOutput => ParseDecimal(prev[t].token) = prev[t].emit_depth

\* a record at depth 0, an increment, a second record: tokens "0" then "1",
\* while the other thread is at another depth and the formatter was made at 0
C6_Witness ==
  \E t \in Threads, u \in Threads :
    /\ u # t /\ Running(u) /\ depth(u) = 2
    /\ prev[t] # NoOutput /\ prev[t].token = <<"0">>
    /\ rendered[t] # NoOutput /\ rendered[t].line.depth = <<"1">>
    /\ rendered[t].born = 0

\* the spaces a byte string starts with
RECURSIVE LeadingSpaces(_)
LeadingSpaces(q) ==
  IF Len(q) = 0 \/ q[1] # " " THEN 0 ELSE 1 + LeadingSpaces(SubSeq(q, 2, Len(q)))

\* C7: the payload log forwards starts with exactly d * s spaces, d the
\* thread's depth and s the spaces_per_depth it read: 12 for d = 3 and s = 4,
\* none for d = 0, and the full count when it exceeds one chunk of the loop.
C7_IndentMath ==
  \A t \in Threads :
    forwarded[t] # NoOutput =>
      LET e == forwarded[t]
          p == e.fwd.payload
      IN /\ e.d = depth(t)
         /\ LeadingSpaces(p) = e.d * e.spd
         /\ Len(p) >= e.d * e.spd + Len(call[t].orig.payload)
         /\ (e.d = 3 /\ e.spd = 4) => LeadingSpaces(p) = 12
         /\ e.d = 0 => LeadingSpaces(p) = 0

C7_Witness ==
  \E t \in Threads :
    /\ forwarded[t] # NoOutput
    /\ forwarded[t].d * forwarded[t].spd > kChunk
    /\ LeadingSpaces(forwarded[t].fwd.payload) = forwarded[t].d * forwarded[t].spd

C7_TwelveWitness ==
  \E t \in Threads :
    /\ forwarded[t] # NoOutput
    /\ forwarded[t].d = 3 /\ forwarded[t].spd = 4
    /\ LeadingSpaces(forwarded[t].fwd.payload) = 12

\* C8 as stated: the payload of a call in flight is built from the colour (and
\* the width) that were configured when the call began.
C8_InFlightUsesConfigAtCallStart ==
  \A t \in Threads :
    (forwarded[t] # NoOutput /\ ~forwarded[t].fast) =>
      forwarded[t].fwd.payload =
        build_buf(indent_of(forwarded[t].d, forwarded[t].spd),
                  call[t].orig.funcname, forwarded[t].color0,
                  call[t].orig.payload)

\* the SGR colour codes by number: 30-37 for the eight names, 90-97 for bright_
BaseColors == <<"black", "red", "green", "yellow", "blue", "magenta", "cyan",
                "white">>
BrightColors == <<"bright_black", "bright_red", "bright_green", "bright_yellow",
                  "bright_blue", "bright_magenta", "bright_cyan", "bright_white">>
ExpectedCode(name) ==
  IF \E i \in 1..8 : BaseColors[i] = name
  THEN <<"ESC", "[">> \o Decimal(29 + (CHOOSE i \in 1..8 : BaseColors[i] = name))
       \o <<"m">>
  ELSE IF \E i \in 1..8 : BrightColors[i] = name
  THEN <<"ESC", "[">> \o Decimal(89 + (CHOOSE i \in 1..8 : BrightColors[i] = name))
       \o <<"m">>
  ELSE <<>>

\* C9: log forwards the record as it is exactly when the indent is 0 and there
\* is no function name; otherwise the forwarded payload is the indent spaces,
\* then (for a named function) the colour's SGR code (nothing for an unknown
\* name), the function name, the reset code and ": ", then the payload.
C9_ForwardedLayout ==
  \A t \in Threads :
    forwarded[t] # NoOutput =>
      LET e == forwarded[t]
          m == call[t].orig
          n == e.d * e.spd
          fn == m.funcname
      IN /\ e.fast <=> (n = 0 /\ fn = <<>>)
         /\ e.fast => e.fwd = m
         /\ ~e.fast =>
              e.fwd.payload =
                Spaces(n)
                \o (IF fn # <<>>
                    THEN ExpectedCode(e.color) \o fn \o <<"ESC", "[", "m">>
                         \o <<":", " ">>
                    ELSE <<>>)
                \o m.payload

C9_Witness ==
  \E t \in Threads :
    /\ forwarded[t] # NoOutput /\ ~forwarded[t].fast
    /\ forwarded[t].d * forwarded[t].spd > 0
    /\ call[t].orig.funcname # <<>>
    /\ forwarded[t].color = "cyan"

C9_FastWitness == \E t \in Threads : forwarded[t] # NoOutput /\ forwarded[t].fast

C9_UnknownColorWitness ==
  \E t \in Threads :
    /\ forwarded[t] # NoOutput /\ call[t].orig.funcname # <<>>
    /\ forwarded[t].color = "teal"

\* C10: a step of stderr_indent_color_sink_mt::log changes neither any
\* thread's depth nor the sink's configuration nor the record it was given;
\* what it forwards differs from that record in the payload only; and the line
\* the file sink writes carries the payload the record was emitted with,
\* whichever sink is called first.
C10_FrameEffect ==
  [][\A t \in Threads :
       /\ (InSink(t, "stderr") /\ call'[t] # call[t]) =>
            /\ g_depth' = g_depth
            /\ spaces_per_depth_' = spaces_per_depth_
            /\ fn_color_code_' = fn_color_code_
            /\ call'[t].msg = call[t].msg
            /\ forwarded'[t] # NoOutput =>
                 [forwarded'[t].fwd EXCEPT !.payload = <<>>]
                   = [call[t].msg EXCEPT !.payload = <<>>]
       /\ rendered'[t] # NoOutput =>
            rendered'[t].line.msg = call'[t].orig.payload]_vars

\* the console sink ran first and indented; the file line has the original
C10_Witness ==
  \E t \in Threads :
    /\ sinks = <<"stderr", "file">>
    /\ rendered[t] # NoOutput /\ forwarded[t] # NoOutput
    /\ ~forwarded[t].fast
    /\ rendered[t].line.msg = call[t].orig.payload
    /\ forwarded[t].fwd.payload # rendered[t].line.msg
    /\ forwarded[t].fwd.level = "warn"

(* ------------------------------------------------------- specification *)
Next ==
  \/ \E t \in Threads : ScopeEnter(t, MaxDepth)
  \/ \E t \in Threads, path \in ExitPaths : ScopeExit(t, path)
  \/ \E t \in Threads : ScopeNew(t)
  \/ \E t \in Threads, c \in Threads : ScopeDelete(t, c)
  \/ \E p \in Threads, c \in Threads : thread_start(p, c)
  \/ \E t \in Threads : thread_exit(t)

\* init(): the file sink first, then the console sink
Init == InitWith(<<"file", "stderr">>)

Spec == Init /\ [][Next]_vars

\* the sink chain of init(): the main thread nests and logs through the file
\* sink and the indenting console sink, while it or a second thread
\* reconfigures the console sink
InitLog == \E order \in SinkOrders : InitWith(order)

NextLog ==
  \/ ScopeEnter(MainThread, MaxLogDepth)
  \/ \E path \in ExitPaths : ScopeExit(MainThread, path)
  \/ \E c \in LogThreads : thread_start(MainThread, c)
  \/ \E r \in Records : Log(MainThread, r)
  \/ FileSinkLog(MainThread)
  \/ IndentLogBegin(MainThread)
  \/ IndentLogBuild(MainThread)
  \/ LogReturn(MainThread)
  \/ \E t \in LogThreads, v \in SpaceInputs : set_spaces_per_depth(t, v)
  \/ \E t \in LogThreads, name \in ColorInputs : set_fn_color_begin(t, name)
  \/ \E t \in LogThreads : set_fn_color_end(t)

SpecLog == InitLog /\ [][NextLog]_vars

\* example.cpp: one file sink with the %D pattern; the main thread and a worker
\* nest and log
InitFmt == InitWith(<<"file">>)

NextFmt ==
  \/ \E t \in LogThreads : ScopeEnter(t, MaxDepth)
  \/ \E t \in LogThreads, path \in ExitPaths : ScopeExit(t, path)
  \/ \E c \in LogThreads : thread_start(MainThread, c)
  \/ \E t \in LogThreads : thread_exit(t)
  \/ install_depth_flag(MainThread)
  \/ \E t \in LogThreads, r \in Records : Log(t, r)
  \/ \E t \in LogThreads : FileSinkLog(t)
  \/ \E t \in LogThreads : LogReturn(t)

SpecFmt == InitFmt /\ [][NextFmt]_vars
====
